---- MODULE Spec2Model ----
(***************************************************************************)
(* The tasks module of the Hono/Prisma boilerplate as a state machine:     *)
(* router -> controller -> service -> repository -> store, and the root    *)
(* application's catch-all error handler.                                  *)
(*                                                                         *)
(* Every handler makes at most one store call, so a request is one atomic  *)
(* step taken at the moment of that call.  The store call of a request may *)
(* fail (the input `up` of every action, which matters only to a request   *)
(* that calls the store): the database is a remote PostgreSQL server       *)
(* reached through a connection pool.                                      *)
(***************************************************************************)
EXTENDS Integers, Sequences, FiniteSets, TLC

\* Bounds of the model: the tasks ever created, and the requests that run
\* concurrently.
MaxTasks == 2
MaxFlight == 3

(***************************************************************************)
(* JSON values of the request body fields, and of a stored row's fields.   *)
(***************************************************************************)
Absent == [t |-> "absent", s |-> "", b |-> FALSE]
Str(x) == [t |-> "str", s |-> x, b |-> FALSE]
Bool(x) == [t |-> "bool", s |-> "", b |-> x]
Num == [t |-> "num", s |-> "", b |-> FALSE]

\* The request bodies tried: JSON objects with every mix of a missing, an
\* ill-typed, an empty and a proper field, a JSON value that is no object,
\* text that is not JSON, and no body at all.
TitleInputs == {Absent, Str(""), Str("a"), Str("b")}
CompletedInputs == {Absent, Bool(TRUE), Bool(FALSE)}
NoBody == [raw |-> "missing", title |-> Absent, completed |-> Absent]
Bodies ==
    {[raw |-> "object", title |-> t, completed |-> c] :
        t \in TitleInputs, c \in CompletedInputs}
    \cup {[raw |-> "object", title |-> Num, completed |-> Absent],
          [raw |-> "object", title |-> Str("a"), completed |-> Str("yes")],
          [raw |-> "object", title |-> Absent, completed |-> Num]}
    \cup {[raw |-> r, title |-> Absent, completed |-> Absent] :
        r \in {"nonobject", "malformed", "missing"}}

\* The ids the store hands out, in order (opaque and never reused).
IdNames == <<"id1", "id2", "id3", "id4", "id5", "id6">>
Issued(n) == {IdNames[i] : i \in 1..n}
\* The path segments a client can send: the ids it has been given, and
\* "stats", which the store never issues as an id.
PathSegs(n) == Issued(n) \cup {"stats"}

NodeEnvs == {"development", "production", "test"}

\* flight: the requests handled concurrently, in the order they arrived, each
\* pending at its store call or done.  serial: the same requests run one
\* after the other in the order of their store calls (the rows that gives),
\* and for each task the value each field was last given.
VARIABLES rows, nextId, nodeEnv, last, server, flight, serial

vars == <<rows, nextId, nodeEnv, last, server, flight, serial>>

(***************************************************************************)
(* Schema/validation (tasks-schema.ts).                                    *)
(***************************************************************************)
ValidTitle(v) == v.t = "str" /\ v.s # ""
ValidCompleted(v) == v.t \in {"absent", "bool"}

\* safeParse never throws: success with the known fields, or the issues.
CreateTaskSchema(body) ==
    LET issues ==
            IF body.raw # "object" THEN {"body"}
            ELSE (IF ValidTitle(body.title) THEN {} ELSE {"title"})
                 \cup (IF ValidCompleted(body.completed) THEN {} ELSE {"completed"})
    IN  [success |-> issues = {},
         data |-> [title |-> body.title, completed |-> body.completed],
         issues |-> issues]

UpdateTaskSchema(body) ==
    LET issues ==
            IF body.raw # "object" THEN {"body"}
            ELSE (IF body.title.t = "absent" \/ ValidTitle(body.title)
                  THEN {} ELSE {"title"})
                 \cup (IF ValidCompleted(body.completed) THEN {} ELSE {"completed"})
    IN  [success |-> issues = {},
         data |-> [title |-> body.title, completed |-> body.completed],
         issues |-> issues]

(***************************************************************************)
(* Repository (tasks-repository.ts).  Each function returns the store's    *)
(* rows after the call, the entities it returns, its boolean result, the   *)
(* message of the error it throws ("" when it returns) and its name.       *)
(***************************************************************************)
StoreDown == "Can't reach database server"

Returned(rs, ts, ok, fn) ==
    [rows |-> rs, tasks |-> ts, ok |-> ok, threw |-> "", call |-> fn]
Thrown(rs, msg, fn) ==
    [rows |-> rs, tasks |-> <<>>, ok |-> FALSE, threw |-> msg, call |-> fn]

Matching(rs, id) == {r \in rs : r.id = id}

\* orderBy createdAt asc: oldest first.
OrderedAsc(rs) ==
    LET n == Cardinality(rs)
    IN  {s \in [1..n -> rs] :
            /\ \A i, j \in 1..n : i # j => s[i] # s[j]
            /\ \A i, j \in 1..n : i < j => s[i].createdAt <= s[j].createdAt}

\* orderBy createdAt desc: every order the store may return.
OrderedDesc(rs) ==
    LET n == Cardinality(rs)
    IN  {s \in [1..n -> rs] :
            /\ \A i, j \in 1..n : i # j => s[i] # s[j]
            /\ \A i, j \in 1..n : i < j => s[i].createdAt >= s[j].createdAt}

findAll(rs, up) ==
    IF ~up THEN {Thrown(rs, StoreDown, "findAll")}
    ELSE {Returned(rs, s, TRUE, "findAll") : s \in OrderedDesc(rs)}

findById(rs, id, up) ==
    IF ~up THEN Thrown(rs, StoreDown, "findById")
    ELSE LET m == Matching(rs, id)
         IN  Returned(rs, IF m = {} THEN <<>> ELSE <<CHOOSE r \in m : TRUE>>,
                      m # {}, "findById")

create(rs, data, newId, now, up) ==
    IF ~up THEN Thrown(rs, StoreDown, "create")
    ELSE LET row == [id |-> newId, title |-> data.title,
                     completed |-> data.completed, createdAt |-> now]
         IN  Returned(rs \cup {row}, <<row>>, TRUE, "create")

\* update as a replacement of the row: a field the data leaves out is
\* cleared instead of kept.
update_Replaces(rs, id, data, up) ==
    LET m == Matching(rs, id)
    IN  IF ~up \/ m = {} THEN Returned(rs, <<>>, FALSE, "update")
        ELSE LET old == CHOOSE r \in m : TRUE
                 new == [old EXCEPT !.title = data.title,
                                    !.completed = data.completed]
             IN  Returned((rs \ {old}) \cup {new}, <<new>>, TRUE, "update")

\* try { prisma.task.update } catch (error) { return null }
update(rs, id, data, up) ==
    LET m == Matching(rs, id)
    IN  IF ~up \/ m = {} THEN Returned(rs, <<>>, FALSE, "update")
        ELSE LET old == CHOOSE r \in m : TRUE
                 new == [old EXCEPT
                            !.title = IF data.title.t = "absent"
                                      THEN @ ELSE data.title,
                            !.completed = IF data.completed.t = "absent"
                                          THEN @ ELSE data.completed]
             IN  Returned((rs \ {old}) \cup {new}, <<new>>, TRUE, "update")

\* deleteById that reports success whether or not it removed a row.
deleteById_AlwaysTrue(rs, id, up) ==
    LET m == Matching(rs, id)
    IN  IF ~up THEN Returned(rs, <<>>, FALSE, "deleteById")
        ELSE Returned(rs \ m, <<>>, TRUE, "deleteById")

\* try { prisma.task.delete; return true } catch (error) { return false }
deleteById(rs, id, up) ==
    LET m == Matching(rs, id)
    IN  IF ~up \/ m = {} THEN Returned(rs, <<>>, FALSE, "deleteById")
        ELSE Returned(rs \ m, <<>>, TRUE, "deleteById")

count(rs) == Cardinality(rs)

findByStatus(rs, completed) == {r \in rs : r.completed = Bool(completed)}

(***************************************************************************)
(* Service (tasks-service.ts).                                             *)
(***************************************************************************)
getAllTasks(rs, up) == findAll(rs, up)

getTaskById(rs, id, up) == findById(rs, id, up)

\* createTask without the default: completed is passed on as submitted.
createTaskService_NoDefault(rs, data, newId, now, up) ==
    create(rs, [title |-> data.title, completed |-> data.completed],
           newId, now, up)

\* completed: data.completed ?? false
createTaskService(rs, data, newId, now, up) ==
    create(rs,
           [title |-> data.title,
            completed |-> IF data.completed.t = "absent"
                          THEN Bool(FALSE) ELSE data.completed],
           newId, now, up)

\* updateTask with createTask's default: a PATCH that leaves completed out
\* writes completed = false.
updateTaskService_DefaultsCompleted(rs, id, data, up) ==
    update(rs, id,
           [title |-> data.title,
            completed |-> IF data.completed.t = "absent"
                          THEN Bool(FALSE) ELSE data.completed],
           up)

updateTaskService(rs, id, data, up) == update(rs, id, data, up)

deleteTaskService(rs, id, up) == deleteById(rs, id, up)

(***************************************************************************)
(* Controller (tasks-controller.ts).  A handler's outcome: the rows after  *)
(* it, its response, the message of the error it throws ("" when it        *)
(* responds) and the repository function it called ("none" when none).     *)
(***************************************************************************)
NotFoundMessage == "Task not found"
JsonSyntaxError == "Unexpected token in JSON"

\* A response: its status and its body's parts (the entities, the error
\* message, the validation issues' field paths, the statistics, the stack).
Json(status, ts, error, issues) ==
    [status |-> status, tasks |-> ts, error |-> error, issues |-> issues,
     stats |-> <<>>, stack |-> FALSE]

Responds(rs, resp, fn) == [rows |-> rs, resp |-> resp, threw |-> "", call |-> fn]
Throws(rs, msg, fn) ==
    [rows |-> rs, resp |-> Json(0, <<>>, "", {}), threw |-> msg, call |-> fn]

\* c.req.json() throws on a body that is not JSON.
ReqJsonThrows(body) == body.raw \in {"malformed", "missing"}

getTasks(rs, up) ==
    {IF r.threw # "" THEN Throws(rs, r.threw, r.call)
     ELSE Responds(r.rows, Json(200, r.tasks, "", {}), r.call) :
        r \in getAllTasks(rs, up)}

getTask(rs, id, up) ==
    LET r == getTaskById(rs, id, up)
    IN  IF r.threw # "" THEN Throws(rs, r.threw, r.call)
        ELSE IF r.tasks = <<>>
        THEN Responds(r.rows, Json(404, <<>>, NotFoundMessage, {}), r.call)
        ELSE Responds(r.rows, Json(200, r.tasks, "", {}), r.call)

\* createTask that does not look at result.success.
createTask_SkipsValidation(rs, body, newId, now, up) ==
    IF ReqJsonThrows(body) THEN Throws(rs, JsonSyntaxError, "none")
    ELSE LET r == createTaskService(rs, CreateTaskSchema(body).data, newId, now, up)
         IN  IF r.threw # "" THEN Throws(rs, r.threw, r.call)
             ELSE Responds(r.rows, Json(201, r.tasks, "", {}), r.call)

createTask(rs, body, newId, now, up) ==
    IF ReqJsonThrows(body) THEN Throws(rs, JsonSyntaxError, "none")
    ELSE LET result == CreateTaskSchema(body)
         IN  IF ~result.success
             THEN Responds(rs, Json(400, <<>>, "", result.issues), "none")
             ELSE LET r == createTaskService(rs, result.data, newId, now, up)
                  IN  IF r.threw # "" THEN Throws(rs, r.threw, r.call)
                      ELSE Responds(r.rows, Json(201, r.tasks, "", {}), r.call)

\* updateTask that does not test the service's result for null.
updateTask_NoNullCheck(rs, id, body, up) ==
    IF ReqJsonThrows(body) THEN Throws(rs, JsonSyntaxError, "none")
    ELSE LET result == UpdateTaskSchema(body)
         IN  IF ~result.success
             THEN Responds(rs, Json(400, <<>>, "", result.issues), "none")
             ELSE LET r == updateTaskService(rs, id, result.data, up)
                  IN  Responds(r.rows, Json(200, r.tasks, "", {}), r.call)

\* updateTask that calls the service before it looks at result.success.
updateTask_ValidatesLate(rs, id, body, up) ==
    IF ReqJsonThrows(body) THEN Throws(rs, JsonSyntaxError, "none")
    ELSE LET result == UpdateTaskSchema(body)
             r == updateTaskService(rs, id, result.data, up)
         IN  IF ~result.success
             THEN Responds(r.rows, Json(400, <<>>, "", result.issues), r.call)
             ELSE IF r.tasks = <<>>
             THEN Responds(r.rows, Json(404, <<>>, NotFoundMessage, {}), r.call)
             ELSE Responds(r.rows, Json(200, r.tasks, "", {}), r.call)

\* updateTask that does not look at result.success.
updateTask_SkipsValidation(rs, id, body, up) ==
    IF ReqJsonThrows(body) THEN Throws(rs, JsonSyntaxError, "none")
    ELSE LET r == updateTaskService(rs, id, UpdateTaskSchema(body).data, up)
         IN  IF r.tasks = <<>>
             THEN Responds(r.rows, Json(404, <<>>, NotFoundMessage, {}), r.call)
             ELSE Responds(r.rows, Json(200, r.tasks, "", {}), r.call)

updateTask(rs, id, body, up) ==
    IF ReqJsonThrows(body) THEN Throws(rs, JsonSyntaxError, "none")
    ELSE LET result == UpdateTaskSchema(body)
         IN  IF ~result.success
             THEN Responds(rs, Json(400, <<>>, "", result.issues), "none")
             ELSE LET r == updateTaskService(rs, id, result.data, up)
                  IN  IF r.tasks = <<>>
                      THEN Responds(r.rows, Json(404, <<>>, NotFoundMessage, {}),
                                    r.call)
                      ELSE Responds(r.rows, Json(200, r.tasks, "", {}), r.call)

deleteTask(rs, id, up) ==
    LET r == deleteTaskService(rs, id, up)
    IN  IF ~r.ok
        THEN Responds(r.rows, Json(404, <<>>, NotFoundMessage, {}), r.call)
        ELSE Responds(r.rows, Json(204, <<>>, "", {}), r.call)

(***************************************************************************)
(* The same handlers in the two steps the event loop runs them in: up to   *)
(* the await of the service's call (the body is read and validated; the    *)
(* handler answers at once when that fails), and from the call's result    *)
(* to the response.  Other requests' steps run between the two.            *)
(***************************************************************************)
Awaits(data) ==
    [settled |-> FALSE, data |-> data, out |-> Throws({}, "", "none")]
Settles(out) ==
    [settled |-> TRUE, data |-> [title |-> Absent, completed |-> Absent],
     out |-> out]

createTaskAwait(rs, body) ==
    IF ReqJsonThrows(body) THEN Settles(Throws(rs, JsonSyntaxError, "none"))
    ELSE LET result == CreateTaskSchema(body)
         IN  IF ~result.success
             THEN Settles(Responds(rs, Json(400, <<>>, "", result.issues), "none"))
             ELSE Awaits(result.data)

createTaskResume(rs, r) ==
    IF r.threw # "" THEN Throws(rs, r.threw, r.call)
    ELSE Responds(r.rows, Json(201, r.tasks, "", {}), r.call)

updateTaskAwait(rs, body) ==
    IF ReqJsonThrows(body) THEN Settles(Throws(rs, JsonSyntaxError, "none"))
    ELSE LET result == UpdateTaskSchema(body)
         IN  IF ~result.success
             THEN Settles(Responds(rs, Json(400, <<>>, "", result.issues), "none"))
             ELSE Awaits(result.data)

updateTaskResume(r) ==
    IF r.tasks = <<>>
    THEN Responds(r.rows, Json(404, <<>>, NotFoundMessage, {}), r.call)
    ELSE Responds(r.rows, Json(200, r.tasks, "", {}), r.call)

deleteTaskResume(r) ==
    IF ~r.ok
    THEN Responds(r.rows, Json(404, <<>>, NotFoundMessage, {}), r.call)
    ELSE Responds(r.rows, Json(204, <<>>, "", {}), r.call)

(***************************************************************************)
(* Router (tasks-routes.ts, mounted at /tasks by routes.ts): the first     *)
(* registered route that matches the method and the path serves it.        *)
(***************************************************************************)
tasksRouter ==
    << [method |-> "GET", path |-> "/", handler |-> "getTasks"],
       [method |-> "GET", path |-> "/:id", handler |-> "getTask"],
       [method |-> "POST", path |-> "/", handler |-> "createTask"],
       [method |-> "PATCH", path |-> "/:id", handler |-> "updateTask"],
       [method |-> "DELETE", path |-> "/:id", handler |-> "deleteTask"] >>

\* seg = "" is the path "/"; a parameter matches one non-empty segment.
Matches(route, method, seg) ==
    /\ route.method = method
    /\ \/ route.path = "/" /\ seg = ""
       \/ route.path = "/:id" /\ seg # ""
       \/ route.path = "/stats" /\ seg = "stats"

Route(method, seg) ==
    LET hits == {i \in 1..Len(tasksRouter) : Matches(tasksRouter[i], method, seg)}
    IN  IF hits = {} THEN "notFound"
        ELSE tasksRouter[CHOOSE i \in hits : \A j \in hits : i <= j].handler

(***************************************************************************)
(* Application (index.ts).                                                 *)
(***************************************************************************)
\* app.onError: error: err.message, stack only when NODE_ENV is development.
onError(message, env) ==
    [status |-> 500, tasks |-> <<>>, error |-> message, issues |-> {},
     stats |-> <<>>, stack |-> (env = "development")]

\* The response the client gets for a handler's outcome.
Response(out, env) == IF out.threw # "" THEN onError(out.threw, env) ELSE out.resp

Exchange(method, seg, handler, body, up, out, env) ==
    [method |-> method, seg |-> seg, handler |-> handler, body |-> body,
     call |-> out.call, storeErr |-> (out.call # "none" /\ ~up),
     resp |-> Response(out, env)]

NoExchange ==
    [method |-> "", seg |-> "", handler |-> "", body |-> NoBody,
     call |-> "none", storeErr |-> FALSE, resp |-> Json(0, <<>>, "", {})]

\* The entry point's script: where it stands ("start", "checked" once
\* checkDatabaseConnection() is called, "served" once serve() is called), the
\* connectivity check's promise, the listener, and what the check logged.
Starting ==
    [script |-> "start", dbCheck |-> "idle", listening |-> FALSE, logged |-> ""]

Serving ==
    [script |-> "served", dbCheck |-> "connected", listening |-> TRUE,
     logged |-> "info"]

\* serve() is the statement after the check's call: the script reaches it
\* without awaiting the check's promise.
ServeReady_Awaits(srv) ==
    srv.script = "checked" /\ srv.dbCheck \in {"connected", "failed"}

ServeReady(srv) == srv.script = "checked"

NoSerial == [rows |-> {}, written |-> <<>>]

\* The state after boot with an empty table, in a production deployment.
Init ==
    /\ rows = {}
    /\ nextId = 0
    /\ nodeEnv = "production"
    /\ last = NoExchange
    /\ server = Serving
    /\ flight = <<>>
    /\ serial = NoSerial

\* The same under every NODE_ENV the process may be started with.
InitEnv ==
    /\ rows = {}
    /\ nextId = 0
    /\ nodeEnv \in NodeEnvs
    /\ last = NoExchange
    /\ server = Serving
    /\ flight = <<>>
    /\ serial = NoSerial

\* The process at its start, before the entry point's script has run.
InitBoot ==
    /\ rows = {}
    /\ nextId = 0
    /\ nodeEnv = "production"
    /\ last = NoExchange
    /\ server = Starting
    /\ flight = <<>>
    /\ serial = NoSerial

\* checkDatabaseConnection() is called: the query is sent, .then registered.
RunCheck ==
    /\ server.script = "start"
    /\ server' = [server EXCEPT !.script = "checked", !.dbCheck = "pending"]
    /\ UNCHANGED <<rows, nextId, nodeEnv, last, flight, serial>>

\* serve({fetch: app.fetch, port}) is called: the listener is asked for.
CallServe ==
    /\ ServeReady(server)
    /\ server' = [server EXCEPT !.script = "served"]
    /\ UNCHANGED <<rows, nextId, nodeEnv, last, flight, serial>>

\* The port is bound: serve's callback logs the address.
ListenerBound ==
    /\ server.script = "served"
    /\ ~server.listening
    /\ server' = [server EXCEPT !.listening = TRUE]
    /\ UNCHANGED <<rows, nextId, nodeEnv, last, flight, serial>>

\* The check's promise settles, once the script has yielded (it has ended,
\* or it cannot go on): connected is logged as info, a failure as an error.
CheckResolves ==
    /\ server.dbCheck = "pending"
    /\ server.script = "served" \/ ~ServeReady(server)
    /\ \E connected \in BOOLEAN :
        server' = [server EXCEPT
                      !.dbCheck = IF connected THEN "connected" ELSE "failed",
                      !.logged = IF connected THEN "info" ELSE "error"]
    /\ UNCHANGED <<rows, nextId, nodeEnv, last, flight, serial>>

\* GET /
GetTasks ==
    \E up \in BOOLEAN :
        /\ server.listening
        /\ Route("GET", "") = "getTasks"
        /\ \E out \in getTasks(rows, up) :
            /\ rows' = out.rows
            /\ last' = Exchange("GET", "", "getTasks", NoBody, up, out, nodeEnv)
        /\ UNCHANGED <<nextId, nodeEnv, server, flight, serial>>

\* GET /:id
GetTask ==
    \E seg \in PathSegs(nextId), up \in BOOLEAN :
        /\ server.listening
        /\ Route("GET", seg) = "getTask"
        /\ LET out == getTask(rows, seg, up)
           IN  /\ rows' = out.rows
               /\ last' = Exchange("GET", seg, "getTask", NoBody, up, out, nodeEnv)
        /\ UNCHANGED <<nextId, nodeEnv, server, flight, serial>>

\* POST /
CreateTask ==
    \E body \in Bodies, up \in BOOLEAN :
        /\ server.listening
        /\ Route("POST", "") = "createTask"
        /\ LET out == createTask(rows, body, IdNames[nextId + 1], nextId + 1, up)
               created == out.rows # rows
           IN  /\ out.call = "none" => up
               /\ created => nextId < MaxTasks
               /\ rows' = out.rows
               /\ nextId' = IF created THEN nextId + 1 ELSE nextId
               /\ last' = Exchange("POST", "", "createTask", body, up, out, nodeEnv)
        /\ UNCHANGED <<nodeEnv, server, flight, serial>>

\* PATCH /:id
UpdateTask ==
    \E seg \in PathSegs(nextId), body \in Bodies, up \in BOOLEAN :
        /\ server.listening
        /\ Route("PATCH", seg) = "updateTask"
        /\ LET out == updateTask(rows, seg, body, up)
           IN  /\ out.call = "none" => up
               /\ rows' = out.rows
               /\ last' = Exchange("PATCH", seg, "updateTask", body, up, out, nodeEnv)
        /\ UNCHANGED <<nextId, nodeEnv, server, flight, serial>>

\* DELETE /:id
DeleteTask ==
    \E seg \in PathSegs(nextId), up \in BOOLEAN :
        /\ server.listening
        /\ Route("DELETE", seg) = "deleteTask"
        /\ LET out == deleteTask(rows, seg, up)
               ex == Exchange("DELETE", seg, "deleteTask", NoBody, up, out, nodeEnv)
           IN  /\ rows' = out.rows
               /\ last' = ex
        /\ UNCHANGED <<nextId, nodeEnv, server, flight, serial>>

Next ==
    \/ GetTasks
    \/ GetTask
    \/ CreateTask
    \/ UpdateTask
    \/ DeleteTask

Spec == Init /\ [][Next]_vars

SpecEnv == InitEnv /\ [][Next]_vars

\* The boot, and the listing, reading, creating and deleting of tasks
\* through the listener.  The script runs on and the port gets bound; nothing
\* makes the check's query ever answer.
NextBoot ==
    \/ RunCheck
    \/ CallServe
    \/ ListenerBound
    \/ CheckResolves
    \/ GetTasks
    \/ GetTask
    \/ CreateTask
    \/ DeleteTask

SpecBoot ==
    /\ InitBoot
    /\ [][NextBoot]_vars
    /\ WF_vars(RunCheck)
    /\ WF_vars(CallServe)
    /\ WF_vars(ListenerBound)

(***************************************************************************)
(* Concurrent requests.  Node runs one handler step at a time, and a       *)
(* handler gives the event loop back at each await: a mutating handler is  *)
(* two steps, its arrival (up to the await of the service's call) and the  *)
(* store's answer (the single prisma statement, which the database runs    *)
(* atomically, and the response made from its result).  Up to MaxFlight    *)
(* POST, PATCH and DELETE requests are in flight at once.                  *)
(***************************************************************************)
Task1 == [id |-> IdNames[1], title |-> Str("a"), completed |-> Bool(FALSE),
          createdAt |-> 1]

ConcCreateBodies ==
    {[raw |-> "object", title |-> t, completed |-> Absent] :
        t \in {Str("b"), Str("")}}

ConcUpdateBodies ==
    {[raw |-> "object", title |-> Str("b"), completed |-> Absent],
     [raw |-> "object", title |-> Absent, completed |-> Bool(TRUE)],
     [raw |-> "object", title |-> Str(""), completed |-> Absent]}

\* What the table of a running service holds: nothing, or a task created
\* earlier; `serial` starts from the same rows.
InitConc ==
    /\ rows \in {{}, {Task1}}
    /\ nextId = Cardinality(rows)
    /\ nodeEnv = "production"
    /\ last = NoExchange
    /\ server = Serving
    /\ flight = <<>>
    /\ serial = [rows |-> rows,
                 written |-> [id \in {r.id : r \in rows} |->
                                 LET r == CHOOSE x \in rows : x.id = id
                                 IN  [title |-> r.title,
                                      completed |-> r.completed]]]

Busy(fl) == \E i \in DOMAIN fl : fl[i].state = "pending"

\* Every request pending now runs concurrently with the one arriving.
Overlap(fl) ==
    [i \in DOMAIN fl |-> IF fl[i].state = "pending"
                         THEN [fl[i] EXCEPT !.overlapped = TRUE] ELSE fl[i]]

\* A request arrives: its handler runs to its await (aw).  One that answers
\* without a store call is done at once; ref is the handler run alone.
Arrive(method, seg, handler, body, aw, ref) ==
    LET slot == [method |-> method, seg |-> seg, handler |-> handler,
                 body |-> body, data |-> aw.data,
                 existed |-> Matching(rows, seg) # {},
                 overlapped |-> ~aw.settled /\ Busy(flight),
                 state |-> IF aw.settled THEN "done" ELSE "pending",
                 calls |-> 0, storeErr |-> FALSE, ok |-> FALSE,
                 removed |-> FALSE,
                 resp |-> IF aw.settled THEN Response(aw.out, nodeEnv)
                          ELSE Json(0, <<>>, "", {}),
                 want |-> IF aw.settled THEN Response(ref, nodeEnv)
                          ELSE Json(0, <<>>, "", {})]
    IN  /\ Len(flight) < MaxFlight
        /\ server.listening
        /\ flight' = Append(IF aw.settled THEN flight ELSE Overlap(flight), slot)
        /\ UNCHANGED <<rows, nextId, nodeEnv, last, server, serial>>

\* The store answers request i with r and the handler responds with out;
\* ref is the handler run alone on the serial run's rows, w the fields'
\* last written values after it.
Answer(i, up, r, out, ref, w) ==
    /\ rows' = out.rows
    /\ flight' = [flight EXCEPT ![i] =
                     [@ EXCEPT !.state = "done",
                               !.calls = @ + 1,
                               !.storeErr = ~up,
                               !.ok = r.ok,
                               !.removed = (Matching(rows, flight[i].seg) # {}
                                            /\ Matching(out.rows, flight[i].seg) = {}),
                               !.resp = Response(out, nodeEnv),
                               !.want = Response(ref, nodeEnv)]]
    /\ serial' = [rows |-> ref.rows, written |-> w]
    /\ UNCHANGED <<nodeEnv, last, server>>

BeginCreate ==
    \E body \in ConcCreateBodies :
        /\ Route("POST", "") = "createTask"
        /\ Arrive("POST", "", "createTask", body, createTaskAwait(rows, body),
                  createTask(serial.rows, body, IdNames[nextId + 1],
                             nextId + 1, TRUE))

BeginUpdate ==
    \E seg \in Issued(nextId), body \in ConcUpdateBodies :
        /\ Route("PATCH", seg) = "updateTask"
        /\ Arrive("PATCH", seg, "updateTask", body, updateTaskAwait(rows, body),
                  updateTask(serial.rows, seg, body, TRUE))

\* deleteTask reads no body: its first step is the service's call.
BeginDelete ==
    \E seg \in Issued(nextId) :
        /\ Route("DELETE", seg) = "deleteTask"
        /\ Arrive("DELETE", seg, "deleteTask", NoBody,
                  Awaits([title |-> Absent, completed |-> Absent]),
                  deleteTask(serial.rows, seg, TRUE))

FinishCreate ==
    \E i \in DOMAIN flight, up \in BOOLEAN :
        /\ flight[i].state = "pending" /\ flight[i].handler = "createTask"
        /\ LET newId == IdNames[nextId + 1]
               body == flight[i].body
               r == createTaskService(rows, flight[i].data, newId, nextId + 1, up)
               out == createTaskResume(rows, r)
               ref == createTask(serial.rows, body, newId, nextId + 1, up)
               w == serial.written
               made == [title |-> body.title,
                        completed |-> IF body.completed = Absent
                                      THEN Bool(FALSE) ELSE body.completed]
           IN  /\ nextId' = IF out.rows # rows THEN nextId + 1 ELSE nextId
               /\ Answer(i, up, r, out, ref,
                         IF ref.rows = serial.rows THEN w
                         ELSE [id \in DOMAIN w \cup {newId} |->
                                  IF id = newId THEN made ELSE w[id]])

FinishUpdate ==
    \E i \in DOMAIN flight, up \in BOOLEAN :
        /\ flight[i].state = "pending" /\ flight[i].handler = "updateTask"
        /\ LET seg == flight[i].seg
               body == flight[i].body
               r == updateTaskService(rows, seg, flight[i].data, up)
               out == updateTaskResume(r)
               ref == updateTask(serial.rows, seg, body, up)
               w == serial.written
           IN  /\ UNCHANGED nextId
               /\ Answer(i, up, r, out, ref,
                         IF ref.resp.status # 200 THEN w
                         ELSE [w EXCEPT ![seg] =
                                  [title |-> IF body.title = Absent
                                             THEN @.title ELSE body.title,
                                   completed |-> IF body.completed = Absent
                                                 THEN @.completed
                                                 ELSE body.completed]])

FinishDelete ==
    \E i \in DOMAIN flight, up \in BOOLEAN :
        /\ flight[i].state = "pending" /\ flight[i].handler = "deleteTask"
        /\ LET seg == flight[i].seg
               r == deleteTaskService(rows, seg, up)
               out == deleteTaskResume(r)
               ref == deleteTask(serial.rows, seg, up)
           IN  /\ UNCHANGED nextId
               /\ Answer(i, up, r, out, ref, serial.written)

NextConc ==
    \/ BeginCreate
    \/ BeginUpdate
    \/ BeginDelete
    \/ FinishCreate
    \/ FinishUpdate
    \/ FinishDelete

SpecConc == InitConc /\ [][NextConc]_vars

(***************************************************************************)
(* Properties.  `last` is the latest exchange: the request, the handler    *)
(* that served it, the repository function it called, whether that store   *)
(* call failed, and the response.                                          *)
(***************************************************************************)
StoredIds == {r.id : r \in rows}

\* A create body the contract accepts: a non-empty title, completed a
\* boolean or left out.
ValidCreateBody(body) ==
    /\ body.raw = "object"
    /\ body.title.t = "str" /\ body.title.s # ""
    /\ body.completed.t \in {"absent", "bool"}

\* {total, completed, pending} composed from count() and findByStatus(true).
TaskStats(rs) ==
    <<count(rs), Cardinality(findByStatus(rs, TRUE)),
      count(rs) - Cardinality(findByStatus(rs, TRUE))>>

\* C1: after N creations, K of them completed, and nothing else (every id
\* issued is still stored), GET /stats is served by the stats operation and
\* answers 200 with {total: N, completed: K, pending: N-K}; the get-by-id
\* handler never answers it with id = "stats".
C1_StatsServed ==
    (last.method = "GET" /\ last.seg = "stats" /\ ~last.storeErr
        /\ StoredIds = Issued(nextId))
    => /\ last.handler = "getTaskStats"
       /\ last.resp.status = 200
       /\ last.resp.stats = TaskStats(rows)

\* C2: a POST with a valid body, the store answering, returns 201 with one
\* entity under an id the store issued; and the GET /:id of that id issued
\* next, the store answering, returns 200 with the submitted title and the
\* submitted completed, or false when completed was left out.
C2_CreateThenGet ==
    /\ [](  (last.handler = "createTask" /\ ValidCreateBody(last.body)
               /\ ~last.storeErr)
          => /\ last.resp.status = 201
             /\ Len(last.resp.tasks) = 1
             /\ last.resp.tasks[1].id = IdNames[nextId])
    /\ [][  (last.handler = "createTask" /\ last.resp.status = 201
               /\ last'.handler = "getTask" /\ ~last'.storeErr
               /\ last'.seg = last.resp.tasks[1].id)
          => /\ last'.resp.status = 200
             /\ Len(last'.resp.tasks) = 1
             /\ last'.resp.tasks[1].id = last'.seg
             /\ last'.resp.tasks[1].title = last.body.title
             /\ last'.resp.tasks[1].completed =
                    IF last.body.completed = Absent
                    THEN Bool(FALSE) ELSE last.body.completed ]_vars

\* C2's case: the task created last, without a completed field, read back.
C2_Witness ==
    /\ last.handler = "getTask"
    /\ last.resp.status = 200
    /\ last.seg = IdNames[nextId]
    /\ last.resp.tasks[1].title = Str("a")
    /\ last.resp.tasks[1].completed = Bool(FALSE)

\* C3: once DELETE /:id has completed with 204 or 404, the GET /:id of the
\* same id that follows yields 404 whenever the store answers it.
C3_DeleteThenGet ==
    [][  (last.handler = "deleteTask" /\ last.resp.status \in {204, 404}
           /\ last'.handler = "getTask" /\ last'.seg = last.seg
           /\ ~last'.storeErr)
      => last'.resp.status = 404 ]_vars


\* An update body the contract accepts: each field left out or well-formed.
ValidUpdateBody(body) ==
    /\ body.raw = "object"
    /\ body.title.t = "absent" \/ (body.title.t = "str" /\ body.title.s # "")
    /\ body.completed.t \in {"absent", "bool"}

\* c.req.json() can read the body: it is JSON.
JsonBody(body) == body.raw \in {"object", "nonobject"}

\* C4 as claimed: a PATCH /:id of an id that is not stored yields 404 for
\* every JSON request body, valid, empty or failing validation.
C4_Original ==
    [][  (last'.handler = "updateTask" /\ last'.seg \notin StoredIds
           /\ JsonBody(last'.body))
      => last'.resp.status = 404 ]_vars

\* C4 as amended: a PATCH /:id of an id that is not stored never yields 200;
\* it yields 404 for every body that passes validation, the empty object
\* included, and 400 for a JSON body that fails validation.
C4_Amended ==
    [][  (last'.handler = "updateTask" /\ last'.seg \notin StoredIds)
      => /\ last'.resp.status # 200
         /\ ValidUpdateBody(last'.body) => last'.resp.status = 404
         /\ (JsonBody(last'.body) /\ ~ValidUpdateBody(last'.body))
                => last'.resp.status = 400 ]_vars

\* C4's case: a valid PATCH of a deleted task's id, answered 404.
C4_Witness ==
    /\ last.handler = "updateTask"
    /\ last.seg \in Issued(nextId) \ StoredIds
    /\ last.body.title = Str("b")
    /\ ~last.storeErr
    /\ last.resp.status = 404

\* C5: a POST with an empty-string title yields 400 whatever completed is,
\* calls no repository function and adds no task.
C5_EmptyTitleRejected ==
    [][  (last'.handler = "createTask" /\ last'.body.raw = "object"
           /\ last'.body.title = Str(""))
      => /\ last'.resp.status = 400
         /\ last'.call = "none"
         /\ rows' = rows
         /\ nextId' = nextId ]_vars

\* C5's case: an empty title with completed = true, refused, beside a task.
C5_Witness ==
    /\ last.handler = "createTask"
    /\ last.body.title = Str("")
    /\ last.body.completed = Bool(TRUE)
    /\ last.resp.status = 400
    /\ rows # {}

\* C6: a store call that fails for another reason than record-not-found is
\* answered 500 by the top-level handler, never 404 or a success.
C6_StoreFailureIs500 == last.storeErr => last.resp.status = 500

\* C7: a POST / or PATCH /:id whose body is not JSON, is missing, or does not
\* match the schema is answered 400 with a non-empty issue list, never 500.
C7_BadBodyIs400 ==
    /\ (last.handler = "createTask" /\ ~ValidCreateBody(last.body))
        => (last.resp.status = 400 /\ last.resp.issues # {})
    /\ (last.handler = "updateTask" /\ ~ValidUpdateBody(last.body))
        => (last.resp.status = 400 /\ last.resp.issues # {})

\* C8: every 500 response carries a stack exactly when the mode is not
\* production, and two 500 responses in a row carry the same error message,
\* whatever failed.
C8_GenericError ==
    [][  last'.resp.status = 500
      => /\ last'.resp.stack <=> (nodeEnv # "production")
         /\ last.resp.status = 500 => last'.resp.error = last.resp.error ]_vars

\* C9: each id names at most one stored task, every stored title is a
\* non-empty string and every stored completed is a boolean.
C9_StoreInvariant ==
    /\ \A r1, r2 \in rows : r1.id = r2.id => r1 = r2
    /\ \A r \in rows : r.title.t = "str" /\ r.title.s # ""
    /\ \A r \in rows : r.completed.t = "bool"

\* C9's case: two tasks stored, the latest request a PATCH that was refused.
C9_Witness ==
    /\ Cardinality(rows) = 2
    /\ last.handler = "updateTask"
    /\ last.seg \in StoredIds
    /\ last.body.title = Str("")
    /\ last.resp.status = 400

\* C10: a PATCH /:id with a valid body of a stored task, the store answering,
\* returns 200 with the updated entity; title and completed take the body's
\* value when the body gives one and keep theirs otherwise, id and createdAt
\* stay, and every other row is as it was.
C10_PartialUpdate ==
    [][  (last'.handler = "updateTask" /\ ValidUpdateBody(last'.body)
           /\ last'.seg \in StoredIds /\ ~last'.storeErr)
      => LET old == CHOOSE r \in rows : r.id = last'.seg
             body == last'.body
         IN  /\ last'.resp.status = 200
             /\ Len(last'.resp.tasks) = 1
             /\ LET new == last'.resp.tasks[1]
                 IN  /\ new.id = old.id
                     /\ new.createdAt = old.createdAt
                     /\ new.title = IF body.title = Absent
                                    THEN old.title ELSE body.title
                     /\ new.completed = IF body.completed = Absent
                                        THEN old.completed ELSE body.completed
                     /\ rows' = (rows \ {old}) \cup {new}
                     /\ rows' \ {new} = rows \ {old} ]_vars

\* C10's case: of two stored tasks, one completed by a PATCH without title.
C10_Witness ==
    /\ Cardinality(rows) = 2
    /\ last.handler = "updateTask"
    /\ last.body.title = Absent
    /\ last.body.completed = Bool(TRUE)
    /\ last.resp.status = 200
    /\ last.resp.tasks[1].title = Str("a")

\* C11: GET /, the store answering, returns 200 with an array holding each
\* stored task once and nothing else, newest first; [] on an empty store.
C11_ListNewestFirst ==
    (last.handler = "getTasks" /\ ~last.storeErr)
    => /\ last.resp.status = 200
       /\ Len(last.resp.tasks) = Cardinality(rows)
       /\ {last.resp.tasks[i] : i \in 1..Len(last.resp.tasks)} = rows
       /\ \A i, j \in 1..Len(last.resp.tasks) :
              i < j => last.resp.tasks[i].createdAt >= last.resp.tasks[j].createdAt
       /\ rows = {} => last.resp.tasks = <<>>

\* C11's case: two tasks listed, the later one first.
C11_Witness ==
    /\ last.handler = "getTasks"
    /\ last.resp.status = 200
    /\ Len(last.resp.tasks) = 2
    /\ last.resp.tasks[1].createdAt > last.resp.tasks[2].createdAt

\* C15: a request answered 400 or 404, and every GET, leaves the store as it
\* was; a PATCH whose body fails validation calls no repository function;
\* a PATCH or DELETE of an id that is not stored changes nothing.
C15_NoEffect ==
    [][ /\ (last'.resp.status \in {400, 404} \/ last'.method = "GET")
            => (rows' = rows /\ nextId' = nextId)
        /\ (last'.handler = "updateTask" /\ last'.resp.status = 400)
            => last'.call = "none"
        /\ (last'.handler = "updateTask" /\ JsonBody(last'.body)
               /\ ~ValidUpdateBody(last'.body))
            => (last'.resp.status = 400 /\ last'.call = "none")
        /\ (last'.handler \in {"updateTask", "deleteTask"}
               /\ last'.seg \notin StoredIds)
            => rows' = rows ]_vars

\* C15's case: a PATCH with an ill-typed title of a stored task, refused.
C15_Witness ==
    /\ last.handler = "updateTask"
    /\ last.seg \in StoredIds
    /\ last.body.title = Num
    /\ last.resp.status = 400

\* C12: the listener gets bound and stays bound, whether the connectivity
\* check succeeds, fails or never answers; the script reaches serve() with
\* the check still pending, and a failed check is logged and nothing more.
C12_ListenerBound ==
    /\ <>[]server.listening
    /\ [](server.script = "checked" => server.dbCheck = "pending")
    /\ [](server.dbCheck = "failed" => server.logged = "error")

\* C12's case: a task created through the listener after the check failed.
C12_Witness ==
    /\ server.listening
    /\ server.dbCheck = "failed"
    /\ last.handler = "createTask"
    /\ last.resp.status = 201


\* The DELETE requests of one id that arrived while the id was stored and ran
\* concurrently with another request.
Deleters(id) ==
    {i \in DOMAIN flight : /\ flight[i].handler = "deleteTask"
                           /\ flight[i].seg = id
                           /\ flight[i].existed
                           /\ flight[i].overlapped}

\* C13: of the concurrent DELETE requests of one existing id, once all are
\* answered and no store call of theirs failed, exactly one got 204 and every
\* other 404; the row was removed once, by the request that got 204, which is
\* the one deleteById returned true for; the id is no longer stored.
C13_OneDeleteWins ==
    \A id \in Issued(nextId) :
        LET g == Deleters(id)
        IN  (/\ Cardinality(g) >= 2
             /\ \A i \in g : flight[i].state = "done" /\ ~flight[i].storeErr)
            => /\ Cardinality({i \in g : flight[i].resp.status = 204}) = 1
               /\ \A i \in g : flight[i].resp.status \in {204, 404}
               /\ \A i \in g : flight[i].ok <=> flight[i].removed
               /\ \A i \in g : flight[i].resp.status = 204 <=> flight[i].removed
               /\ id \notin StoredIds

\* Three concurrent DELETE requests of the stored id are answered: the second
\* to arrive got 204, the two others 404.
C13_Witness ==
    /\ Len(flight) = 3
    /\ Deleters(IdNames[1]) = {1, 2, 3}
    /\ \A i \in {1, 2, 3} : flight[i].state = "done" /\ ~flight[i].storeErr
    /\ flight[2].resp.status = 204
    /\ flight[1].resp.status = 404
    /\ flight[3].resp.status = 404

\* C14: every POST, PATCH or DELETE makes at most one store call; the rows
\* are those of the same requests run one after the other in the order of
\* their store calls, and every answered request got the response it gets in
\* that serial run; every stored field holds the value last written to it.
C14_Serializable ==
    /\ \A i \in DOMAIN flight : flight[i].calls <= 1
    /\ rows = serial.rows
    /\ \A i \in DOMAIN flight :
          flight[i].state = "done" => flight[i].resp = flight[i].want
    /\ \A r \in rows : /\ r.id \in DOMAIN serial.written
                       /\ r.title = serial.written[r.id].title
                       /\ r.completed = serial.written[r.id].completed

\* Two concurrent PATCH requests of one task, the first to arrive writing the
\* title and the second completed, answered in the reverse order: the row
\* holds both writes.
C14_Witness ==
    /\ Len(flight) >= 2
    /\ flight[1].handler = "updateTask" /\ flight[2].handler = "updateTask"
    /\ flight[1].overlapped /\ flight[2].overlapped
    /\ flight[1].resp.status = 200 /\ flight[2].resp.status = 200
    /\ flight[1].body.title = Str("b") /\ flight[2].body.completed = Bool(TRUE)
    /\ flight[2].resp.tasks # <<>> /\ flight[2].resp.tasks[1].title = Str("a")
    /\ \E r \in rows : r.title = Str("b") /\ r.completed = Bool(TRUE)

====
